---- MODULE Spec2Model ----
(***************************************************************************)
(* A model of the three streaming scripts of the deepdive examples:        *)
(*   - the relation feature extractor  (ext_has_spouse_features.py),       *)
(*   - the word/variable extractor     (word_extractor.py),                *)
(*   - the recall evaluator            (compute-recall.py).                *)
(* One run executes exactly one script (prog); the scripts share only the  *)
(* control variables pc, err and stdout.  Text that the scripts parse is   *)
(* a sequence of one-character strings, so that splitting, stripping and   *)
(* number parsing are computed; text the scripts print is a string.        *)
(***************************************************************************)
EXTENDS Integers, Sequences, FiniteSets, TLC

VARIABLES
  prog,             \* which script this run executes
  pc,               \* position of the script
  err,              \* the uncaught exception that ended the run, or "none"
  stdout,           \* the lines printed so far: [rec, text]
  lineno,           \* number of input lines the main loop has read
  \* relation feature extractor
  marriedFile,      \* content of dicts/married.txt
  stdin,            \* the input stream: a sequence of rows
  dicts,            \* ddlib's dictionary store: dict_id -> set of words
  relation_id,      \* parts[5] of the current row
  features,         \* the set built at lines 36-40
  pending,          \* elements a loop over a set or dict has not visited yet
  genArgs,          \* arguments of the last call of the feature generator
  \* word extractor
  titleIn,          \* the input stream: decoded JSON arrays
  title_id,
  \* recall evaluator
  tagsJson,         \* tags.json's by_key object
  inputCsv,         \* the rows csv.reader yields for input.csv
  rid_exp,
  positive_correct,
  tot_correct,
  handled           \* what the join did with each key it met

vars == << prog, pc, err, stdout, lineno, marriedFile, stdin, dicts,
           relation_id, features, pending, genArgs, titleIn, title_id,
           tagsJson, inputCsv, rid_exp, positive_correct, tot_correct,
           handled >>

extractorVars == << marriedFile, stdin, dicts, relation_id, features, genArgs >>
wordVars == << titleIn, title_id >>
recallVars == << tagsJson, inputCsv, rid_exp, positive_correct, tot_correct,
                 handled >>

-----------------------------------------------------------------------------
(* Bounds of the model.                                                    *)

MaxRecords == 2        \* rows in the feature extractor's input stream
MaxTitleLen == 3       \* characters in a title
MaxRows == 2           \* data rows in input.csv

-----------------------------------------------------------------------------
(* Text.                                                                   *)

Range(s) == { s[i] : i \in DOMAIN s }

RECURSIVE Str(_)
\* the string a sequence of characters spells
Str(cs) == IF cs = << >> THEN "" ELSE Head(cs) \o Str(Tail(cs))

RECURSIVE Flatten(_)
Flatten(ss) == IF ss = << >> THEN << >> ELSE Head(ss) \o Flatten(Tail(ss))

RECURSIVE JoinWith(_, _)
\* sep.join(fields)
JoinWith(fields, sep) ==
  IF fields = << >> THEN << >>
  ELSE IF Len(fields) = 1 THEN fields[1]
  ELSE fields[1] \o sep \o JoinWith(Tail(fields), sep)

Whitespace == { " ", "\t", "\n" }

RECURSIVE LStrip(_)
LStrip(s) == IF s # << >> /\ Head(s) \in Whitespace THEN LStrip(Tail(s)) ELSE s

RECURSIVE RStrip(_)
RStrip(s) ==
  IF s # << >> /\ s[Len(s)] \in Whitespace
  THEN RStrip(SubSeq(s, 1, Len(s) - 1)) ELSE s

\* str.strip()
Strip(s) == RStrip(LStrip(s))

RECURSIVE Leftmost(_, _, _)
\* the occurrences a left-to-right scan takes: each starts at or after the
\* end of the one before
Leftmost(starts, width, from) ==
  LET ahead == { i \in starts : i >= from }
  IN  IF ahead = {} THEN << >>
      ELSE LET m == CHOOSE i \in ahead : \A j \in ahead : i <= j
           IN  << m >> \o Leftmost(starts, width, m + width)

\* str.split(sep): every occurrence of sep separates two fields, empty
\* fields included; the result has at least one field
Split(s, sep) ==
  LET w == Len(sep)
      starts == { i \in 1..(Len(s) - w + 1) : SubSeq(s, i, i + w - 1) = sep }
      cut == Leftmost(starts, w, 1)
      n == Len(cut)
  IN  [k \in 1..(n + 1) |->
         SubSeq(s, IF k = 1 THEN 1 ELSE cut[k - 1] + w,
                   IF k = n + 1 THEN Len(s) ELSE cut[k] - 1)]

Digits == << "0", "1", "2", "3", "4", "5", "6", "7", "8", "9" >>

DigitVal(c) == (CHOOSE i \in DOMAIN Digits : Digits[i] = c) - 1

IsDigits(s) == s # << >> /\ \A i \in DOMAIN s : s[i] \in Range(Digits)

RECURSIVE DigitsVal(_)
DigitsVal(s) ==
  IF s = << >> THEN 0
  ELSE 10 * DigitsVal(SubSeq(s, 1, Len(s) - 1)) + DigitVal(s[Len(s)])

\* int(x) of a string: surrounding whitespace, an optional sign, digits
IntBody(s) == IF s # << >> /\ Head(s) \in { "-", "+" } THEN Tail(s) ELSE s
IsInt(s) == IsDigits(IntBody(Strip(s)))
IntVal(s) ==
  LET t == Strip(s)
  IN  IF Head(t) = "-" THEN 0 - DigitsVal(Tail(t)) ELSE DigitsVal(IntBody(t))

RECURSIVE NatStr(_)
NatStr(n) == IF n < 10 THEN Digits[n + 1] ELSE NatStr(n \div 10) \o Digits[(n % 10) + 1]

\* '%d' % n
IntStr(n) == IF n < 0 THEN "-" \o NatStr(0 - n) ELSE NatStr(n)

-----------------------------------------------------------------------------
(* ddlib, the utility library the feature extractor imports.  Its source   *)
(* is not among the files modelled here; these definitions follow the      *)
(* design document's sections 3 and 4.1 to 4.4.                            *)

DictOrder == << "married", "non_married" >>

\* 4.1 load(path, dictId): one word per line, trimmed; a second load of the
\* same dictId replaces the first; an unreadable resource is a ResourceError
load_dictionary(store, file, dict_id) ==
  IF ~file.readable THEN [err |-> "ResourceError", store |-> store]
  ELSE [err |-> "none",
        store |-> (dict_id :> { Str(Strip(file.lines[i])) : i \in DOMAIN file.lines })
                  @@ store]

\* 4.2 the Sentence of equal-length annotation sequences: one Token per
\* position, or a MalformedInputError when the lengths disagree
get_sentence(begin_offsets, end_offsets, words, lemmas, poses, dependencies, ners) ==
  IF { Len(begin_offsets), Len(end_offsets), Len(lemmas), Len(poses),
       Len(dependencies), Len(ners) } # { Len(words) }
  THEN [err |-> "MalformedInputError", sentence |-> << >>]
  ELSE [err |-> "none",
        sentence |-> [i \in 1..Len(words) |->
                        [word |-> Str(words[i]), lemma |-> Str(lemmas[i]),
                         pos |-> Str(poses[i]), dep |-> Str(dependencies[i]),
                         ner |-> Str(ners[i]), idx |-> i - 1]]]

\* 4.3 Span(begin_word_id, length): the constructor sees the offset and the
\* length only, so it can reject what 3 forbids of these two alone
Span(begin_word_id, length) ==
  IF length <= 0 THEN [err |-> "SpanEmptyError"]
  ELSE IF begin_word_id < 0 THEN [err |-> "SpanOutOfRangeError"]
  ELSE [err |-> "none", begin_word_id |-> begin_word_id, length |-> length]

\* 3: a span lies inside a sentence of n tokens
SpanInRange(span, n) ==
  /\ span.begin_word_id >= 0
  /\ span.length > 0
  /\ span.begin_word_id + span.length <= n

SpanEnd(span) == span.begin_word_id + span.length

RECURSIVE Ascending(_)
\* the positions of a set, in sentence order
Ascending(S) ==
  IF S = {} THEN << >>
  ELSE LET m == CHOOSE x \in S : \A y \in S : x <= y
       IN  << m >> \o Ascending(S \ { m })

\* positions of the sentence a span covers
SpanPositions(span, n) ==
  { i \in 0..(n - 1) : span.begin_word_id <= i /\ i < SpanEnd(span) }

\* positions strictly between the two spans; none when they overlap
BetweenPositions(span1, span2, n) ==
  { i \in 0..(n - 1) :
      \/ SpanEnd(span1) <= i /\ i < span2.begin_word_id
      \/ SpanEnd(span2) <= i /\ i < span1.begin_word_id }

RECURSIVE DictHits(_, _, _, _)
\* one feature per (dictionary, token) membership, in generation order
DictHits(word, ids, store, tag) ==
  IF ids = << >> THEN << >>
  ELSE (IF Head(ids) \in DOMAIN store /\ word \in store[Head(ids)]
        THEN << tag \o Head(ids) \o "]" >> ELSE << >>)
       \o DictHits(word, Tail(ids), store, tag)

RECURSIVE DictFeatures(_, _, _, _)
DictFeatures(sentence, positions, store, tag) ==
  IF positions = << >> THEN << >>
  ELSE DictHits(sentence[Head(positions) + 1].word, DictOrder, store, tag)
       \o DictFeatures(sentence, Tail(positions), store, tag)

RECURSIVE LemmaSeq(_, _)
LemmaSeq(sentence, positions) ==
  IF positions = << >> THEN ""
  ELSE IF Len(positions) = 1 THEN sentence[Head(positions) + 1].lemma
  ELSE sentence[Head(positions) + 1].lemma \o " " \o LemmaSeq(sentence, Tail(positions))

\* 4.4 the features of (sentence, span1, span2), in the order the rules
\* produce them; a rule may repeat a feature another occurrence produced
GenericFeatures(sentence, span1, span2, store) ==
  LET n == Len(sentence)
      between == Ascending(BetweenPositions(span1, span2, n))
  IN  DictFeatures(sentence, between, store, "KW_IND_[")
      \o DictFeatures(sentence, Ascending(SpanPositions(span1, n)), store, "SPAN1_IN_[")
      \o DictFeatures(sentence, Ascending(SpanPositions(span2, n)), store, "SPAN2_IN_[")
      \o << "LEMMA_SEQ_[" \o LemmaSeq(sentence, between) \o "]" >>
      \o << "NUM_WORDS_" \o IntStr(Len(between)) >>

\* what a call of the generator can do: 4.4 fixes the result for in-range
\* spans; for a span outside the sentence it fixes nothing, so the call
\* either raises or works on the positions that do exist
get_generic_features_relation(sentence, span1, span2, store) ==
  { [err |-> "none", yielded |-> GenericFeatures(sentence, span1, span2, store)] }
  \cup (IF SpanInRange(span1, Len(sentence)) /\ SpanInRange(span2, Len(sentence))
        THEN {} ELSE { [err |-> "IndexError", yielded |-> << >>] })

-----------------------------------------------------------------------------
(* Inputs of the relation feature extractor.                               *)

\* dicts/non_married.txt
NonMarriedFile == [readable |-> TRUE, lines |-> << << "e", "x", "\n" >> >>]

\* dicts/married.txt: two words (one with blanks around it), no word, or a
\* file that cannot be read
MarriedFiles ==
  { [readable |-> TRUE,
     lines |-> << << "w", "e", "d", "\n" >>, << " ", "w", "i", "f", "e", " ", "\n" >> >>],
    [readable |-> TRUE, lines |-> << >>],
    [readable |-> FALSE, lines |-> << >>] }

Al == << "A", "l" >>
Wed == << "w", "e", "d" >>
Bo == << "B", "o" >>

\* a row of the stream: the ten fields, tab-separated, and the line end
MkRow(fields) == JoinWith(fields, << "\t" >>) \o << "\n" >>

\* the five annotation fields of a sentence
Annot(words, lemmas) ==
  << JoinWith(words, << "~", "^", "~" >>),
     JoinWith(lemmas, << "~", "^", "~" >>),
     JoinWith([i \in DOMAIN words |-> << "N" >>], << "~", "^", "~" >>),
     JoinWith([i \in DOMAIN words |-> << "d" >>], << "~", "^", "~" >>),
     JoinWith([i \in DOMAIN words |-> << "O" >>], << "~", "^", "~" >>) >>

Sent3 == Annot(<< Al, Wed, Bo >>, << Al, Wed, Bo >>)
Sent4 == Annot(<< Al, Wed, Wed, Bo >>, << Al, Wed, Wed, Bo >>)
SentBad == Annot(<< Al, Wed, Bo >>, << Al, Wed >>)

\* relation id and the four span fields
Tail5(rid, a, b, c, d) == << rid, a, b, c, d >>

GoodRows ==
  { MkRow(Sent3 \o Tail5(<< "r", "1" >>, << "0" >>, << "1" >>, << "2" >>, << "1" >>)),
    MkRow(Sent4 \o Tail5(<< "r", "2" >>, << "0" >>, << "1" >>, << "3" >>, << "1" >>)),
    MkRow(Sent3 \o Tail5(<< "r", "1" >>, << "1" >>, << "1" >>, << "2" >>, << "1" >>)) }

BadRows ==
  { \* nine fields, eleven fields, three fields
    MkRow(Sent3 \o << << "r", "3" >>, << "0" >>, << "1" >>, << "2" >> >>),
    MkRow(Sent3 \o Tail5(<< "r", "3" >>, << "0" >>, << "1" >>, << "2" >>, << "1" >>)
          \o << << "9" >> >>),
    MkRow(<< Al, Wed, Bo >>),
    \* a span field that is no number
    MkRow(Sent3 \o Tail5(<< "r", "4" >>, << "x" >>, << "1" >>, << "2" >>, << "1" >>)),
    \* annotation sequences of different lengths
    MkRow(SentBad \o Tail5(<< "r", "5" >>, << "0" >>, << "1" >>, << "2" >>, << "1" >>)),
    \* both: different lengths and a span field that is no number
    MkRow(SentBad \o Tail5(<< "r", "5" >>, << "0" >>, << "y" >>, << "2" >>, << "1" >>)),
    \* a span of length 0, a negative begin, spans that end after the sentence
    MkRow(Sent3 \o Tail5(<< "r", "6" >>, << "0" >>, << "0" >>, << "2" >>, << "1" >>)),
    MkRow(Sent3 \o Tail5(<< "r", "7" >>, << "-", "1" >>, << "1" >>, << "2" >>, << "1" >>)),
    MkRow(Sent3 \o Tail5(<< "r", "8" >>, << "0" >>, << "1" >>, << "2" >>, << "2" >>)),
    MkRow(Sent3 \o Tail5(<< "r", "9" >>, << "3" >>, << "1" >>, << "0" >>, << "1" >>)) }

Rows == GoodRows \cup BadRows

Streams == UNION { [1..n -> Rows] : n \in 0..MaxRecords }

-----------------------------------------------------------------------------
(* The relation feature extractor, ext_has_spouse_features.py.             *)

ARR_DELIM == << "~", "^", "~" >>

TAB == << "\t" >>

\* lines 15 to 24: the fields of a row, or the exception the parse raises
ParseRow(row) ==
  LET parts == Split(Strip(row), TAB)
      rest == SubSeq(parts, 7, Len(parts))
  IN  IF Len(parts) < 6
      THEN [err |-> "IndexError", has_id |-> FALSE]
      ELSE IF (\E i \in DOMAIN rest : ~IsInt(rest[i])) \/ Len(rest) # 4
      THEN [err |-> "ValueError", has_id |-> TRUE, relation_id |-> parts[6]]
      ELSE [err |-> "none", has_id |-> TRUE,
            words |-> Split(parts[1], ARR_DELIM),
            lemmas |-> Split(parts[2], ARR_DELIM),
            poses |-> Split(parts[3], ARR_DELIM),
            dependencies |-> Split(parts[4], ARR_DELIM),
            ners |-> Split(parts[5], ARR_DELIM),
            relation_id |-> parts[6],
            p1_start |-> IntVal(rest[1]), p1_length |-> IntVal(rest[2]),
            p2_start |-> IntVal(rest[3]), p2_length |-> IntVal(rest[4])]

\* [0, ] * len(words)
Zeros(words) == [i \in 1..Len(words) |-> 0]

\* lines 27 to 29 with the words passed where the lemmas belong
BuildSentenceWordsTwice(p) ==
  get_sentence(Zeros(p.words), Zeros(p.words), p.words, p.words, p.poses,
               p.dependencies, p.ners)

\* lines 27 to 29
BuildSentence(p) ==
  get_sentence(Zeros(p.words), Zeros(p.words), p.words, p.lemmas, p.poses,
               p.dependencies, p.ners)

\* line 36 left out: the set of the row before is kept
KeptFeatures == features

\* line 36
EmptyFeatures == {}

\* line 40 as an assignment: the set holds the last feature only
FeaturesAssign(set, feature) == { feature }

\* line 40
FeaturesAdd(set, feature) == set \cup { feature }

RECURSIVE Collect(_, _)
\* lines 39 and 40: the generator's features, added one by one
Collect(set, yielded) ==
  IF yielded = << >> THEN set
  ELSE Collect(FeaturesAdd(set, Head(yielded)), Tail(yielded))

\* line 42
OutputLine(rid, feature) == Str(rid) \o "\t" \o feature

\* lines 15 to 40 for one row: every way the iteration can go, as the
\* exception it raises (or "none"), the relation_id and the features it
\* leaves, and the generator call it made (gen: empty when it made none)
ProcessRow(row, store, old_id, old_features) ==
  LET p == ParseRow(row)
      rid == IF p.has_id THEN p.relation_id ELSE old_id
      s == BuildSentence(p)
      span1 == Span(p.p1_start, p.p1_length)
      span2 == Span(p.p2_start, p.p2_length)
      Stop(e) == { [err |-> e, relation_id |-> rid, features |-> old_features,
                    gen |-> << >>] }
  IN  IF p.err # "none" THEN Stop(p.err)
      ELSE IF s.err # "none" THEN Stop(s.err)
      ELSE IF span1.err # "none" THEN Stop(span1.err)
      ELSE IF span2.err # "none" THEN Stop(span2.err)
      ELSE { [err |-> g.err, relation_id |-> rid,
              features |-> Collect(EmptyFeatures, g.yielded),
              gen |-> << [n |-> Len(s.sentence), span1 |-> span1, span2 |-> span2] >>] :
             g \in get_generic_features_relation(s.sentence, span1, span2, store) }

\* the next row is read while features of the current one wait to be printed
AtLoopHeadOrPrinting == pc \in { "read", "emit" }

\* the main loop is at its head, about to read the next row
AtLoopHead == pc = "read"

\* lines 9 to 11
LoadDictionaries ==
  /\ prog = "features" /\ pc = "start"
  /\ LET m == load_dictionary(dicts, marriedFile, "married")
         nm == load_dictionary(m.store, NonMarriedFile, "non_married")
     IN  IF m.err # "none"
         THEN /\ pc' = "crashed" /\ err' = m.err /\ dicts' = m.store
         ELSE /\ pc' = "read" /\ err' = err /\ dicts' = nm.store
  /\ UNCHANGED << prog, stdout, lineno, marriedFile, stdin, relation_id,
                  features, pending, genArgs, wordVars, recallVars >>

\* lines 14 to 40: read one row and build its feature set
ReadRow ==
  /\ prog = "features" /\ AtLoopHead
  /\ lineno < Len(stdin)
  /\ \E o \in ProcessRow(stdin[lineno + 1], dicts, relation_id, features) :
       /\ lineno' = lineno + 1
       /\ relation_id' = o.relation_id
       /\ features' = o.features
       /\ genArgs' = o.gen
       /\ IF o.err # "none"
          THEN /\ pc' = "crashed" /\ err' = o.err /\ pending' = {}
          ELSE /\ pc' = IF o.features = {} THEN "read" ELSE "emit"
               /\ err' = err
               /\ pending' = o.features
  /\ UNCHANGED << prog, stdout, marriedFile, stdin, dicts, wordVars, recallVars >>

\* lines 41 and 42: print one feature of the set, in the set's own order
EmitFeature ==
  /\ prog = "features" /\ pc = "emit"
  /\ \E feature \in pending :
       /\ stdout' = Append(stdout, [rec |-> lineno,
                                    text |-> OutputLine(relation_id, feature)])
       /\ pending' = pending \ { feature }
       /\ pc' = IF pending' = {} THEN "read" ELSE "emit"
  /\ UNCHANGED << prog, err, lineno, extractorVars, wordVars, recallVars >>

\* line 14: sys.stdin is exhausted
EndOfInput ==
  /\ prog = "features" /\ AtLoopHead
  /\ lineno = Len(stdin)
  /\ pc' = "done"
  /\ UNCHANGED << prog, err, stdout, lineno, pending, extractorVars, wordVars, recallVars >>

-----------------------------------------------------------------------------
(* The word/variable extractor, word_extractor.py.                         *)

TitleChars == { "a", "b", " ", "\t" }

Titles == UNION { [1..n -> TitleChars] : n \in 0..MaxTitleLen }

\* a JSON number or a JSON string as title_id
TitleIds == { [num |-> TRUE, val |-> 1, chars |-> << >>],
              [num |-> FALSE, val |-> 0, chars |-> << "2" >>] }

\* a decoded input line [title_id, title, has_entities]; title is << >> for
\* null and << t >> for the string t
TitleLines ==
  { [title_id |-> id, title |-> << t >>, has_entities |-> TRUE] :
      id \in TitleIds, t \in Titles }
  \cup { [title_id |-> id, title |-> << >>, has_entities |-> FALSE] : id \in TitleIds }

QuickFox ==
  [title_id |-> [num |-> TRUE, val |-> 1, chars |-> << >>],
   title |-> << << "a", " ", "b" >> >>, has_entities |-> TRUE]

TitleStreams ==
  { << >> } \cup { << l >> : l \in TitleLines }
  \cup { << l, QuickFox >> : l \in TitleLines }

\* int(title_id)
TitleInt(id) == IF id.num THEN id.val ELSE IntVal(id.chars)

\* line 12: set(title.split(" "))
TitleWords(title) == Range(Split(title, << " " >>))

JsonChar(c) == IF c = "\t" THEN "\\t" ELSE c

RECURSIVE JsonString(_)
JsonString(cs) == IF cs = << >> THEN "" ELSE JsonChar(Head(cs)) \o JsonString(Tail(cs))

\* line 14: json.dumps([int(title_id), word])
WordLine(id, word) == "[" \o IntStr(TitleInt(id)) \o ", \"" \o JsonString(word) \o "\"]"

\* lines 7 to 12: read one line and split its title
ReadTitle ==
  /\ prog = "words" /\ pc = "read"
  /\ lineno < Len(titleIn)
  /\ LET line == titleIn[lineno + 1]
     IN  /\ lineno' = lineno + 1
         /\ title_id' = line.title_id
         /\ pending' = IF line.title = << >> THEN {} ELSE TitleWords(line.title[1])
         /\ pc' = IF pending' = {} THEN "read" ELSE "emit"
  /\ UNCHANGED << prog, err, stdout, extractorVars, titleIn, recallVars >>

\* lines 12 to 14: print one word of the set
EmitWord ==
  /\ prog = "words" /\ pc = "emit"
  /\ \E word \in pending :
       /\ stdout' = Append(stdout, [rec |-> lineno, text |-> WordLine(title_id, word)])
       /\ pending' = pending \ { word }
       /\ pc' = IF pending' = {} THEN "read" ELSE "emit"
  /\ UNCHANGED << prog, err, lineno, extractorVars, wordVars, recallVars >>

\* line 7: the input is exhausted
EndOfTitles ==
  /\ prog = "words" /\ pc = "read"
  /\ lineno = Len(titleIn)
  /\ pc' = "done"
  /\ UNCHANGED << prog, err, stdout, lineno, pending, extractorVars, wordVars,
                  recallVars >>

-----------------------------------------------------------------------------
(* The recall evaluator, compute-recall.py.  A probability is held in      *)
(* thousandths: the cells of the model have at most three decimals, and on *)
(* such decimals the comparison of the parsed floats is the comparison of  *)
(* the decimals.                                                           *)

LabelKeys == { "k1", "k2", "k3" }
RowKeys == { "k1", "k2", "k3" }

\* tags.json's by_key: some keys, each with its is_correct
LabelFiles == UNION { [K -> [is_correct : BOOLEAN]] : K \in SUBSET LabelKeys }

Expectations == { << "0", ".", "9", "5" >>, << "0", ".", "9" >>, << "0", ".", "8", "0" >> }

\* a data row of input.csv: the relation id in column 0, the expectation in
\* column 4; one row has text for an expectation, one is too short
CsvRows ==
  { << k, "s", "a", "b", e >> : k \in RowKeys, e \in Expectations }
  \cup { << "k1", "s", "a", "b", << "n", "a" >> >>, << "k2", "s" >> }

CsvHeader == << "relation_id", "sentence", "p1", "p2", << "e" >> >>

\* input.csv: empty, or the header and some rows
CsvFiles ==
  { << >> } \cup { << CsvHeader >> \o rows :
                    rows \in UNION { [1..n -> CsvRows] : n \in 0..MaxRows } }

\* float(s) of a decimal: digits, optionally a point and up to three digits
FloatParts(s) == Split(s, << "." >>)
IsFloat(s) ==
  LET p == FloatParts(s)
  IN  /\ Len(p) \in { 1, 2 }
      /\ IsDigits(p[1])
      /\ Len(p) = 2 => Len(p[2]) <= 3 /\ (p[2] = << >> \/ IsDigits(p[2]))
FloatVal(s) ==
  LET p == FloatParts(s)
      frac == IF Len(p) = 2 THEN p[2] ELSE << >>
      pad == frac \o [i \in 1..(3 - Len(frac)) |-> "0"]
  IN  1000 * DigitsVal(p[1]) + DigitsVal(pad)

\* line 23: the 0.9 of the comparison
Threshold == 900

\* line 23 with > for >=
IsPositiveStrict(expectation) == expectation > Threshold

\* line 23
IsPositive(expectation) == expectation >= Threshold

\* line 9: the rows after the first
DataRows(csv) == IF csv = << >> THEN << >> ELSE Tail(csv)

RECURSIVE LoadRows(_, _)
\* lines 12 to 15: rid_exp after the rows, or the exception a row raises
LoadRows(rows, map) ==
  IF rows = << >> THEN [err |-> "none", rid_exp |-> map]
  ELSE LET s == Head(rows)
       IN  IF Len(s) < 5 THEN [err |-> "IndexError", rid_exp |-> map]
           ELSE IF ~IsFloat(s[5]) THEN [err |-> "ValueError", rid_exp |-> map]
           ELSE LoadRows(Tail(rows), (s[1] :> FloatVal(s[5])) @@ map)

\* a quotient to three decimals, the nearest, an exact half to the even one
Round3(num, den) ==
  LET q == (1000 * num) \div den
      r == (1000 * num) % den
  IN  IF 2 * r > den \/ (2 * r = den /\ q % 2 = 1) THEN q + 1 ELSE q

NatStr3(n) == Digits[((n \div 100) % 10) + 1] \o Digits[((n \div 10) % 10) + 1]
              \o Digits[(n % 10) + 1]

\* '%.3f' % x, x in thousandths
Fixed3(th) == IntStr(th \div 1000) \o "." \o NatStr3(th % 1000)

\* lines 8 to 15: load the labels and the expectation table
LoadInputs ==
  /\ prog = "recall" /\ pc = "start"
  /\ LET r == LoadRows(DataRows(inputCsv), << >>)
     IN  /\ rid_exp' = r.rid_exp
         /\ IF r.err # "none"
            THEN /\ pc' = "crashed" /\ err' = r.err
                 /\ UNCHANGED << pending, handled >>
            ELSE /\ pc' = "labels" /\ err' = err
                 /\ pending' = DOMAIN tagsJson
                 /\ handled' = [k \in DOMAIN r.rid_exp \ DOMAIN tagsJson |-> "skipped"]
  /\ UNCHANGED << prog, stdout, lineno, extractorVars, wordVars, tagsJson,
                  inputCsv, positive_correct, tot_correct >>

\* lines 20 to 24: visit one label, in the dict's own order
VisitLabel ==
  /\ prog = "recall" /\ pc = "labels"
  /\ \E key \in pending :
       /\ pending' = pending \ { key }
       /\ IF tagsJson[key].is_correct = TRUE
          THEN /\ tot_correct' = tot_correct + 1
               /\ IF key \notin DOMAIN rid_exp
                  THEN /\ pc' = "crashed" /\ err' = "KeyError"
                       /\ handled' = (key :> "failed") @@ handled
                       /\ UNCHANGED positive_correct
                  ELSE /\ positive_correct' =
                            IF IsPositive(rid_exp[key]) THEN positive_correct + 1
                            ELSE positive_correct
                       /\ handled' = (key :> "joined") @@ handled
                       /\ UNCHANGED << pc, err >>
          ELSE /\ handled' = (key :> (IF key \in DOMAIN rid_exp THEN "joined"
                                      ELSE "skipped")) @@ handled
               /\ UNCHANGED << pc, err, tot_correct, positive_correct >>
  /\ UNCHANGED << prog, stdout, lineno, extractorVars, wordVars, tagsJson,
                  inputCsv, rid_exp >>

\* lines 26 to 29: print the report
PrintReport ==
  /\ prog = "recall" /\ pc = "labels" /\ pending = {}
  /\ LET head == << [rec |-> 0, text |-> "# labels: " \o IntStr(Cardinality(DOMAIN tagsJson))],
                    [rec |-> 0, text |-> "# true positive: " \o IntStr(positive_correct)],
                    [rec |-> 0, text |-> "# false negative: "
                                         \o IntStr(tot_correct - positive_correct)] >>
     IN  IF tot_correct = 0
         THEN /\ stdout' = stdout \o head
              /\ pc' = "crashed" /\ err' = "ZeroDivisionError"
         ELSE /\ stdout' = stdout \o head \o
                   << [rec |-> 0, text |-> "RECALL: "
                                  \o Fixed3(Round3(positive_correct, tot_correct))] >>
              /\ pc' = "done" /\ err' = err
  /\ UNCHANGED << prog, lineno, pending, extractorVars, wordVars, recallVars >>

-----------------------------------------------------------------------------
(* The runs.                                                               *)

InitCommon ==
  /\ err = "none" /\ stdout = << >> /\ lineno = 0 /\ pending = {}
  /\ dicts = << >> /\ relation_id = << >> /\ features = {} /\ genArgs = << >>
  /\ title_id = [num |-> TRUE, val |-> 0, chars |-> << >>]
  /\ rid_exp = << >> /\ positive_correct = 0 /\ tot_correct = 0
  /\ handled = << >>

InitExtractor ==
  /\ prog = "features" /\ pc = "start"
  /\ marriedFile \in MarriedFiles /\ stdin \in Streams
  /\ titleIn = << >> /\ tagsJson = << >> /\ inputCsv = << >>

InitWords ==
  /\ prog = "words" /\ pc = "read"
  /\ titleIn \in TitleStreams
  /\ marriedFile = [readable |-> FALSE, lines |-> << >>] /\ stdin = << >>
  /\ tagsJson = << >> /\ inputCsv = << >>

InitRecall ==
  /\ prog = "recall" /\ pc = "start"
  /\ tagsJson \in LabelFiles /\ inputCsv \in CsvFiles
  /\ marriedFile = [readable |-> FALSE, lines |-> << >>] /\ stdin = << >>
  /\ titleIn = << >>

Init == InitCommon /\ (InitExtractor \/ InitWords \/ InitRecall)

Next ==
  \/ LoadDictionaries
  \/ ReadRow
  \/ EmitFeature
  \/ EndOfInput
  \/ ReadTitle
  \/ EmitWord
  \/ EndOfTitles
  \/ LoadInputs
  \/ VisitLabel
  \/ PrintReport

Spec == Init /\ [][Next]_vars

-----------------------------------------------------------------------------
(* What the claims refer to, computed from the inputs alone.               *)

\* the dictionary store a successful start-up leaves
StartStore ==
  load_dictionary(load_dictionary(<< >>, marriedFile, "married").store,
                  NonMarriedFile, "non_married").store

Started == prog = "features" /\ pc # "start" /\ err # "ResourceError"

\* the run has ended, normally or by an uncaught exception
Ended == pc \in { "done", "crashed" }

InRange(start, length, n) == start >= 0 /\ length > 0 /\ start + length <= n

\* the numbers of elements of the annotation fields a row has
AnnotLens(row) ==
  LET parts == Split(Strip(row), << "\t" >>)
  IN  { Len(Split(parts[i], << "~", "^", "~" >>)) : i \in 1..5 \cap DOMAIN parts }

\* what the generator yields for a row that parses and builds, duplicates
\* included
Yielded(row, store) ==
  LET p == ParseRow(row)
  IN  GenericFeatures(BuildSentence(p).sentence,
                      [begin_word_id |-> p.p1_start, length |-> p.p1_length],
                      [begin_word_id |-> p.p2_start, length |-> p.p2_length], store)

\* the facts about each row of the input alphabet, computed once
RowFacts ==
  [row \in Rows |->
     LET p == ParseRow(row)
         lens == AnnotLens(row)
         builds == p.err = "none" /\ Cardinality(lens) = 1
         inRange == /\ builds
                    /\ InRange(p.p1_start, p.p1_length, Len(p.words))
                    /\ InRange(p.p2_start, p.p2_length, Len(p.words))
     IN  [malformed |-> p.err # "none",
          hasAnnot |-> Len(Split(Strip(row), << "\t" >>)) >= 5,
          lens |-> lens,
          invalidSpan |-> builds /\ ~inRange,
          wellFormed |-> inRange,
          lines |-> [file \in MarriedFiles |->
                       IF ~(inRange /\ file.readable) THEN {}
                       ELSE LET y == Yielded(row,
                                       load_dictionary(
                                         load_dictionary(<< >>, file, "married").store,
                                         NonMarriedFile, "non_married").store)
                            IN  { Str(p.relation_id) \o "\t" \o y[k] : k \in DOMAIN y }],
          repeats |-> [file \in MarriedFiles |->
                       /\ inRange /\ file.readable
                       /\ LET y == Yielded(row,
                                     load_dictionary(
                                       load_dictionary(<< >>, file, "married").store,
                                       NonMarriedFile, "non_married").store)
                          IN  Len(y) > Cardinality(Range(y))]]]

\* ParseFields fails: the field count is not ten or a span field is no number
MalformedRow(row) == RowFacts[row].malformed

\* the row has the five annotation fields
HasAnnotFields(row) == RowFacts[row].hasAnnot

\* the row's annotation fields split into different numbers of elements
LengthsDisagree(row) == Cardinality(RowFacts[row].lens) > 1

\* ten fields, numeric span fields, equal-length annotations, in-range spans
WellFormedRow(row) == RowFacts[row].wellFormed

\* a span of a row that parses and builds lies outside the sentence
InvalidSpanRow(row) == RowFacts[row].invalidSpan

\* the lines relationId<TAB>feature of a well-formed row's distinct features
ExpectedLines(row) == RowFacts[row].lines[marriedFile]

\* the generator yields some feature of the row more than once
YieldsRepeat(row) == RowFacts[row].repeats[marriedFile]

\* the lines printed while record i was the current one
PositionsOf(i) == { k \in DOMAIN stdout : stdout[k].rec = i }
LinesOf(i) == { stdout[k].text : k \in PositionsOf(i) }

\* record i has been read and the loop over its features has ended
Complete(i) == i < lineno \/ (i = lineno /\ pc \in { "read", "done" })

-----------------------------------------------------------------------------
(* The claims.                                                             *)

\* C1: a malformed record (wrong field count, non-numeric span field) aborts
\* that record alone: when the run has ended, every well-formed record that
\* follows a malformed one in the stream has had its lines printed.
C1_MalformedRecordIsolated ==
  (Started /\ Ended) =>
    \A i \in DOMAIN stdin :
      (WellFormedRow(stdin[i]) /\ \E j \in 1..(i - 1) : MalformedRow(stdin[j]))
        => LinesOf(i) = ExpectedLines(stdin[i])

\* C5: for every well-formed record the printed lines are exactly one line
\* relationId<TAB>feature per distinct feature the generator yielded: none
\* twice, none missing once the record is complete, none foreign.
C5_OneLinePerDistinctFeature ==
  Started =>
    \A i \in 1..lineno :
      WellFormedRow(stdin[i]) =>
        /\ Cardinality(PositionsOf(i)) = Cardinality(LinesOf(i))
        /\ LinesOf(i) \subseteq ExpectedLines(stdin[i])
        /\ Complete(i) => LinesOf(i) = ExpectedLines(stdin[i])

\* C5's case: a record whose generator yielded a feature more than once has
\* been printed completely.
C5_Witness ==
  /\ Started
  /\ \E i \in 1..lineno :
       /\ WellFormedRow(stdin[i]) /\ Complete(i)
       /\ YieldsRepeat(stdin[i])
       /\ Cardinality(PositionsOf(i)) = 3

\* C6: a record with a span of length <= 0, a negative begin or an end past
\* the sentence fails in span resolution: the generator is not called for it
\* and no line is printed for it.
C6_InvalidSpanStopsBeforeGenerator ==
  Started =>
    \A i \in 1..lineno :
      InvalidSpanRow(stdin[i]) =>
        /\ LinesOf(i) = {}
        /\ i = lineno /\ pc = "crashed" /\ genArgs = << >>

StdoutInRecordOrder ==
  \A k \in DOMAIN stdout : \A l \in DOMAIN stdout :
    k < l => stdout[k].rec <= stdout[l].rec

\* a step that reads a row finds nothing of the current record unprinted,
\* and what is printed stays printed, in place
ReadsAfterEmitting ==
  /\ lineno' # lineno => (pending = {} /\ \A k \in DOMAIN stdout : stdout[k].rec <= lineno)
  /\ Len(stdout') >= Len(stdout) /\ SubSeq(stdout', 1, Len(stdout)) = stdout
  /\ \A k \in DOMAIN stdout' \ DOMAIN stdout : stdout'[k].rec = lineno

\* C9: output is emitted record by record in input order: every line of a
\* record is printed before the next record is read, so lines of different
\* records never interleave.
C9_RecordByRecord ==
  /\ [](prog = "features" => StdoutInRecordOrder)
  /\ [][prog = "features" => ReadsAfterEmitting]_vars

\* C9's case: two records have been read and each has printed lines.
C9_Witness ==
  /\ Started /\ lineno = 2 /\ pc = "done"
  /\ LinesOf(1) # {} /\ LinesOf(2) # {}

\* C10: no cross-line state: the lines printed for a well-formed record are
\* those of the record alone and the start-up dictionaries, whatever records
\* came before it, and processing leaves the dictionary store as loaded.
C10_NoCrossLineState ==
  Started =>
    /\ dicts = StartStore
    /\ \A i \in 1..lineno :
         (WellFormedRow(stdin[i]) /\ Complete(i)) =>
           LinesOf(i) = ExpectedLines(stdin[i])

\* C10's case: a well-formed record with features of its own has been
\* printed after a different well-formed record.
C10_Witness ==
  /\ Started /\ lineno = 2 /\ Complete(2)
  /\ WellFormedRow(stdin[1]) /\ WellFormedRow(stdin[2])
  /\ ExpectedLines(stdin[1]) \cap ExpectedLines(stdin[2]) = {}
  /\ LinesOf(2) # {}

-----------------------------------------------------------------------------
(* The recall evaluator's claims.                                          *)

\* every data row of input.csv has its five columns and a number in the last
TableOk ==
  \A i \in DOMAIN DataRows(inputCsv) :
    Len(DataRows(inputCsv)[i]) >= 5 /\ IsFloat(DataRows(inputCsv)[i][5])

RowsOf(key) == { i \in DOMAIN DataRows(inputCsv) : DataRows(inputCsv)[i][1] = key }

\* the expectation of a key: that of its row (of its last row, if several)
ExpectationOf(key) ==
  LET last == CHOOSE i \in RowsOf(key) : \A j \in RowsOf(key) : j <= i
  IN  FloatVal(DataRows(inputCsv)[last][5])

CorrectLabels == { k \in DOMAIN tagsJson : tagsJson[k].is_correct }

TruePositives == { k \in CorrectLabels : ExpectationOf(k) >= 900 }
FalseNegatives == { k \in CorrectLabels : ExpectationOf(k) < 900 }

\* text is a recall line whose three decimals are the nearest to num / den
IsRecallLine(text, num, den) ==
  \E x \in 0..1000 :
    /\ text = "RECALL: " \o Fixed3(x)
    /\ 2 * (x * den - 1000 * num) <= den
    /\ 2 * (1000 * num - x * den) <= den

\* C2: with no correct label (an empty label set included) the run ends
\* normally and reports recall 0, never in a division by zero.
C2_NoCorrectLabelReportsZero ==
  (prog = "recall" /\ Ended /\ TableOk /\ CorrectLabels = {}) =>
    /\ pc = "done"
    /\ Len(stdout) = 4
    /\ stdout[4].text = "RECALL: 0.000"

\* C3: when every label key has an expectation row and some label is
\* correct, the run ends normally and reports the number of all labels, the
\* correct labels with expectation >= 0.9 as true positives (0.9 included),
\* the correct labels with expectation < 0.9 as false negatives, and
\* recall = truePositives / (truePositives + falseNegatives).
C3_ReportMatchesCounts ==
  (/\ prog = "recall" /\ TableOk /\ CorrectLabels # {}
   /\ \A k \in DOMAIN tagsJson : RowsOf(k) # {}) =>
    /\ pc # "crashed"
    /\ pc = "done" =>
         /\ Len(stdout) = 4
         /\ stdout[1].text = "# labels: " \o IntStr(Cardinality(DOMAIN tagsJson))
         /\ stdout[2].text = "# true positive: " \o IntStr(Cardinality(TruePositives))
         /\ stdout[3].text = "# false negative: " \o IntStr(Cardinality(FalseNegatives))
         /\ IsRecallLine(stdout[4].text, Cardinality(TruePositives),
                         Cardinality(TruePositives) + Cardinality(FalseNegatives))

\* C3's case: the report is printed for two correct labels, one with the
\* expectation 0.9 itself and one below it, and a third row without label.
C3_Witness ==
  /\ prog = "recall" /\ pc = "done" /\ TableOk
  /\ \A k \in DOMAIN tagsJson : RowsOf(k) # {}
  /\ Cardinality(CorrectLabels) = 2
  /\ \E k \in TruePositives : ExpectationOf(k) = 900
  /\ FalseNegatives # {}

\* a key that is in one input and not in the other
Unmatched(key) == ~(key \in DOMAIN tagsJson /\ key \in DOMAIN rid_exp)

\* C8: unmatched keys are handled by one policy: whether the run fails on or
\* skips a key present in one input only is the same for every such key,
\* whatever the label's is_correct and whichever input lacks the key.
C8_OnePolicyForUnmatchedKeys ==
  prog = "recall" =>
    \A a \in DOMAIN handled : \A b \in DOMAIN handled :
      (Unmatched(a) /\ Unmatched(b)) => handled[a] = handled[b]

-----------------------------------------------------------------------------
(* The word extractor's claim.                                             *)

\* the whitespace-delimited words of a title: its maximal runs of
\* characters that are not whitespace
WhitespaceWords(title) ==
  { SubSeq(title, ab[1], ab[2]) : ab \in
      { ab \in (DOMAIN title) \X (DOMAIN title) :
          /\ ab[1] <= ab[2]
          /\ \A i \in ab[1]..ab[2] : title[i] \notin Whitespace
          /\ ab[1] = 1 \/ title[ab[1] - 1] \in Whitespace
          /\ ab[2] = Len(title) \/ title[ab[2] + 1] \in Whitespace } }

\* the lines the claim expects of an input line
ExpectedWordLines(line) ==
  IF line.title = << >> THEN {}
  ELSE { "[" \o IntStr(TitleInt(line.title_id)) \o ", \"" \o Str(w) \o "\"]" :
         w \in WhitespaceWords(line.title[1]) }

\* C4: a null title prints nothing; any other title prints exactly one line
\* [titleId, word] per distinct whitespace-delimited word: no word twice, no
\* empty word, whatever whitespace separates the words.
C4_OneLinePerWhitespaceWord ==
  (prog = "words" /\ pc = "done") =>
    \A i \in DOMAIN titleIn :
      /\ LinesOf(i) = ExpectedWordLines(titleIn[i])
      /\ Cardinality(PositionsOf(i)) = Cardinality(LinesOf(i))

====
